---- MODULE Spec2Model ----
(***************************************************************************)
(* conway-rs: Conway's Game of Life on a fixed grid, src/src/main.rs.      *)
(* The state is the Map (grid of cells plus width, height, o_x, o_y), the  *)
(* game state of the main loop and the position inside the loop body.      *)
(* The grid and the screen are scaled down; every loop range, clamp and    *)
(* offset is computed from them exactly as the source computes it.         *)
(***************************************************************************)
EXTENDS Integers, FiniteSets, Sequences, TLC

\* Model bounds standing for MAP_WIDTH and MAP_HEIGHT of the source (300 and
\* 80): three by two cells that the loops visit plus the last column and row.
MAP_WIDTH == 4
MAP_HEIGHT == 3
\* Model bounds standing for SCREEN_WIDTH and SCREEN_HEIGHT of the source (80
\* and 40); as in the source the screen, placed at (o_x, o_y), ends before
\* the last column and the last row of the grid.
SCREEN_WIDTH == 2
SCREEN_HEIGHT == 1
\* Bound on the number of left-button mouse events of a run.
MaxToggles == 2

\* inc_linger's ceiling, the last index of display_map's color_scale.
LINGER_MAX == 9
\* Number of entries of display_map's color_scale.
COLOR_SCALE_LEN == 10

\* map: the Map; game_state: main's game_state; event: the event bound by
\* main's match in the current iteration; pc: position in the loop body;
\* toggles: number of left-button mouse events so far (bounds the run).
VARIABLES map, game_state, event, pc, toggles

vars == <<map, game_state, event, pc, toggles>>

\* struct Cell, as Map::new builds it.
DeadCell == [alive |-> FALSE, linger |-> 0, flip |-> FALSE]

\* Map::new
MapNew ==
    [map    |-> [x \in 0..(MAP_WIDTH - 1) |-> [y \in 0..(MAP_HEIGHT - 1) |-> DeadCell]],
     height |-> MAP_HEIGHT,
     width  |-> MAP_WIDTH,
     o_x    |-> (MAP_WIDTH - SCREEN_WIDTH) \div 2,
     o_y    |-> (MAP_HEIGHT - SCREEN_HEIGHT) \div 2]

\* The cells visited by "for x in 0..(width - 1) { for y in 0..(height - 1)":
\* Rust ranges exclude their upper end.
LoopCells(m) == (0..(m.width - 2)) \X (0..(m.height - 2))

\* init_noise visiting the whole grid.
NoiseCells_whole(m) == (0..(m.width - 1)) \X (0..(m.height - 1))

\* The cells init_noise's loops visit.
NoiseCells(m) == LoopCells(m)

\* init_noise: a visited cell becomes alive where the Perlin sample is >= 0;
\* `positive` is the set of visited cells with such a sample.
init_noise(m, positive) ==
    [m EXCEPT !.map = [x \in DOMAIN m.map |-> [y \in DOMAIN m.map[x] |->
        IF <<x, y>> \in NoiseCells(m) /\ <<x, y>> \in positive
        THEN [m.map[x][y] EXCEPT !.alive = TRUE]
        ELSE m.map[x][y]]]]

\* inc_linger without its ceiling.
inc_linger_unbounded(m, x, y) == [m EXCEPT !.map[x][y].linger = @ + 1]

\* inc_linger
inc_linger(m, x, y) ==
    IF m.map[x][y].linger < LINGER_MAX
    THEN [m EXCEPT !.map[x][y].linger = @ + 1]
    ELSE m

\* dec_linger
dec_linger(m, x, y) ==
    IF m.map[x][y].linger > 0
    THEN [m EXCEPT !.map[x][y].linger = @ - 1]
    ELSE m

\* live_neighbours with the upper ends not clamped at the last index.
NeighbourIndices_unclamped(m, x, y) ==
    LET li == IF x = 0 THEN 0 ELSE x - 1
        lj == IF y = 0 THEN 0 ELSE y - 1
    IN  {p \in (li..(x + 1)) \X (lj..(y + 1)) : ~(p[1] = x /\ p[2] = y)}

\* The index pairs live_neighbours reads: li..hi x lj..hj without (x, y).
NeighbourIndices(m, x, y) ==
    LET h  == m.height - 1
        w  == m.width - 1
        li == IF x = 0 THEN 0 ELSE x - 1
        lj == IF y = 0 THEN 0 ELSE y - 1
        hi == IF x = w THEN w ELSE x + 1
        hj == IF y = h THEN h ELSE y + 1
    IN  {p \in (li..hi) \X (lj..hj) : ~(p[1] = x /\ p[2] = y)}

\* live_neighbours
live_neighbours(m, x, y) ==
    Cardinality({p \in NeighbourIndices(m, x, y) : m.map[p[1]][p[2]].alive})

\* flip_one
flip_one(m, x, y, flip) == [m EXCEPT !.map[x][y].flip = flip]

\* live_die changing the alive flag at once instead of marking the flip.
live_die_in_place(m, x, y) ==
    LET n == live_neighbours(m, x, y)
    IN  IF m.map[x][y].alive
        THEN IF n > 3 \/ n < 2 THEN [m EXCEPT !.map[x][y].alive = FALSE] ELSE m
        ELSE IF n = 3 THEN [m EXCEPT !.map[x][y].alive = TRUE] ELSE m

\* live_die
live_die(m, x, y) ==
    LET n == live_neighbours(m, x, y)
    IN  IF m.map[x][y].alive
        THEN IF n > 3 \/ n < 2 THEN flip_one(m, x, y, TRUE) ELSE m
        ELSE IF n = 3 THEN flip_one(m, x, y, TRUE) ELSE m

\* flip_all that commits a flip and leaves its flag set.
flip_all_keep_flag(m) ==
    [m EXCEPT !.map = [x \in DOMAIN m.map |-> [y \in DOMAIN m.map[x] |->
        IF <<x, y>> \in LoopCells(m) /\ m.map[x][y].flip
        THEN [m.map[x][y] EXCEPT !.alive = ~@]
        ELSE m.map[x][y]]]]

\* flip_all
flip_all(m) ==
    [m EXCEPT !.map = [x \in DOMAIN m.map |-> [y \in DOMAIN m.map[x] |->
        IF <<x, y>> \in LoopCells(m) /\ m.map[x][y].flip
        THEN [m.map[x][y] EXCEPT !.alive = ~@, !.flip = FALSE]
        ELSE m.map[x][y]]]]

\* toggle that sets the cell alive.
toggle_set(m, x, y) == [m EXCEPT !.map[x][y].alive = TRUE]

\* toggle
toggle(m, x, y) == [m EXCEPT !.map[x][y].alive = ~@]

\* The order in which tick's first loops call live_die: i outer, j inner.
RECURSIVE RowMajor(_, _, _, _)
RowMajor(i, j, w, h) ==
    IF i >= w THEN <<>>
    ELSE IF j >= h THEN RowMajor(i + 1, 0, w, h)
    ELSE <<(<<i, j>>)>> \o RowMajor(i, j + 1, w, h)

TickOrder(m) == RowMajor(0, 0, m.width - 1, m.height - 1)

\* The decision phase of tick: live_die on each cell of `order` in turn.
RECURSIVE DecidePhase(_, _)
DecidePhase(m, order) ==
    IF order = <<>> THEN m
    ELSE DecidePhase(live_die(m, Head(order)[1], Head(order)[2]), Tail(order))

\* The last loops of tick: live cells brighten, dead cells fade.
RECURSIVE LingerPhase(_, _)
LingerPhase(m, order) ==
    IF order = <<>> THEN m
    ELSE LET i == Head(order)[1]
             j == Head(order)[2]
         IN  LingerPhase(IF m.map[i][j].alive THEN inc_linger(m, i, j)
                                              ELSE dec_linger(m, i, j),
                         Tail(order))

\* tick updating linger before the commit, from the prior generation.
tick_linger_first(m) ==
    flip_all(LingerPhase(DecidePhase(m, TickOrder(m)), TickOrder(m)))

\* tick
tick(m) == LingerPhase(flip_all(DecidePhase(m, TickOrder(m))), TickOrder(m))

\* The key arm of main's event match.
KeyCodes == {"Enter", "Escape", "Other"}

\* The key arm switching on every Enter event, press or release.
key_game_state_any_enter(gs, code, pressed) ==
    IF code = "Enter"
    THEN CASE gs = "Initializing" -> "Running"
           [] gs = "Running"      -> "Initializing"
           [] gs = "Ending"       -> "Ending"
    ELSE gs

key_game_state(gs, code, pressed) ==
    IF code = "Enter" /\ pressed
    THEN LET toggled == CASE gs = "Initializing" -> "Running"
                          [] gs = "Running"      -> "Initializing"
                          [] gs = "Ending"       -> "Ending"
         IN  IF code = "Escape" THEN "Ending" ELSE toggled
    ELSE gs

\* The mouse arm of main's event match.
mouse_map(m, cx, cy, lbutton_pressed) ==
    LET x == cx + m.o_x
        y == cy + m.o_y
    IN  IF lbutton_pressed THEN toggle(m, x, y) ELSE m

\* The screen cells display_map draws and an on-screen cursor can be at.
ScreenCells == (0..(SCREEN_WIDTH - 1)) \X (0..(SCREEN_HEIGHT - 1))

\* What input::check_for_event(KEY | MOUSE) returns.
NoneEvent ==
    [kind |-> "None", code |-> "Other", pressed |-> FALSE,
     cx |-> 0, cy |-> 0, lbutton_pressed |-> FALSE]

Key(code, pressed) ==
    [kind |-> "Key", code |-> code, pressed |-> pressed,
     cx |-> 0, cy |-> 0, lbutton_pressed |-> FALSE]

Mouse(cx, cy, lbutton_pressed) ==
    [kind |-> "Mouse", code |-> "Other", pressed |-> FALSE,
     cx |-> cx, cy |-> cy, lbutton_pressed |-> lbutton_pressed]

Init ==
    /\ \E positive \in SUBSET NoiseCells(MapNew) : map = init_noise(MapNew, positive)
    /\ game_state = "Initializing"
    /\ event = NoneEvent
    /\ pc = "poll"
    /\ toggles = 0

\* The loop condition holds and check_for_event returns None.
NoEvent ==
    /\ pc = "poll"
    /\ game_state # "Ending"
    /\ event' = NoneEvent
    /\ pc' = "tick"
    /\ UNCHANGED <<map, game_state, toggles>>

\* The loop condition holds and check_for_event returns a key event.
KeyEvent ==
    /\ pc = "poll"
    /\ game_state # "Ending"
    /\ \E code \in KeyCodes, pressed \in BOOLEAN :
          /\ event' = Key(code, pressed)
          /\ game_state' = key_game_state(game_state, code, pressed)
    /\ pc' = "tick"
    /\ UNCHANGED <<map, toggles>>

\* The loop condition holds and check_for_event returns a mouse event.
MouseEvent ==
    /\ pc = "poll"
    /\ game_state # "Ending"
    /\ \E c \in ScreenCells, lbutton_pressed \in BOOLEAN :
          /\ lbutton_pressed => toggles < MaxToggles
          /\ event' = Mouse(c[1], c[2], lbutton_pressed)
          /\ map' = mouse_map(map, c[1], c[2], lbutton_pressed)
          /\ toggles' = IF lbutton_pressed THEN toggles + 1 ELSE toggles
    /\ pc' = "tick"
    /\ UNCHANGED game_state

\* "if game_state == GameState::Running { map.tick() }", then the frame wait.
TickStep ==
    /\ pc = "tick"
    /\ map' = IF game_state = "Running" THEN tick(map) ELSE map
    /\ event' = NoneEvent
    /\ pc' = "poll"
    /\ UNCHANGED <<game_state, toggles>>

\* The loop condition fails: the game is Ending or the window was closed.
LoopExit ==
    /\ pc = "poll"
    /\ \E window_closed \in BOOLEAN : ~(game_state # "Ending" /\ ~window_closed)
    /\ pc' = "done"
    /\ UNCHANGED <<map, game_state, event, toggles>>

Next == NoEvent \/ KeyEvent \/ MouseEvent \/ TickStep \/ LoopExit

Spec == Init /\ [][Next]_vars

TypeOK ==
    /\ game_state \in {"Initializing", "Running", "Ending"}
    /\ pc \in {"poll", "tick", "done"}
    /\ toggles \in 0..MaxToggles

(***************************************************************************)
(* Helpers of the properties.                                              *)
(***************************************************************************)
GridCells == (0..(MAP_WIDTH - 1)) \X (0..(MAP_HEIGHT - 1))

Abs(n) == IF n < 0 THEN -n ELSE n

\* The Moore neighbourhood of (x, y) inside the full grid, no wraparound.
Moore(x, y) ==
    {p \in GridCells : p # <<x, y>> /\ Abs(p[1] - x) <= 1 /\ Abs(p[2] - y) <= 1}

\* The standard rule applied to generation m: survive on 2 or 3, birth on 3.
GameOfLife(m, x, y) ==
    LET n == Cardinality({p \in Moore(x, y) : m.map[p[1]][p[2]].alive})
    IN  \/ m.map[x][y].alive /\ n \in {2, 3}
        \/ ~m.map[x][y].alive /\ n = 3

Before(a, b) == a[1] < b[1] \/ (a[1] = b[1] /\ a[2] < b[2])

AliveOf(m) == [p \in GridCells |-> m.map[p[1]][p[2]].alive]

Reverse(s) == [k \in 1..Len(s) |-> s[Len(s) + 1 - k]]

Swap(s) == [k \in 1..Len(s) |-> <<s[k][2], s[k][1]>>]

\* Orders of the decision phase over the same cells: the source's, its
\* reverse, j outer / i inner, and the reverse of that.
VisitOrders(m) ==
    LET colMajor == Swap(RowMajor(0, 0, m.height - 1, m.width - 1))
    IN  {TickOrder(m), Reverse(TickOrder(m)), colMajor, Reverse(colMajor)}

\* m with every linger and flip reset: the alive flags alone.
OnlyAlive(m) ==
    [m EXCEPT !.map = [x \in DOMAIN m.map |-> [y \in DOMAIN m.map[x] |->
        [alive |-> m.map[x][y].alive, linger |-> 0, flip |-> FALSE]]]]

Ticked == \E p \in GridCells : map.map[p[1]][p[2]].linger > 0

Min(a, b) == IF a < b THEN a ELSE b

Max(a, b) == IF a > b THEN a ELSE b

OtherState(gs) == IF gs = "Initializing" THEN "Running" ELSE "Initializing"

(***************************************************************************)
(* Properties.                                                             *)
(***************************************************************************)

\* C1: after one Map::tick every cell of the full MAP_WIDTH x MAP_HEIGHT grid
\* has the alive flag the standard Game-of-Life rule gives for the prior
\* generation (Moore neighbourhood clamped at the edges).
C1_TickIsGameOfLife ==
    [][(pc = "tick" /\ game_state = "Running") =>
         \A p \in GridCells :
            map'.map[p[1]][p[2]].alive = GameOfLife(map, p[1], p[2])]_vars

\* C2: tick is flip-then-commit: the decision phase changes no alive flag,
\* the alive flags after the commit are the same for every visit order of
\* the decision phase (any two live_die calls commute), and they depend on
\* the prior generation's alive flags alone.
C2_FlipThenCommit ==
    LET next == AliveOf(tick(map))
    IN  /\ \A ord \in VisitOrders(map) :
              LET d == DecidePhase(map, ord)
              IN  /\ AliveOf(d) = AliveOf(map)
                  /\ AliveOf(flip_all(d)) = next
        /\ \A a \in LoopCells(map), b \in LoopCells(map) :
              Before(a, b) =>
                 live_die(live_die(map, a[1], a[2]), b[1], b[2])
                    = live_die(live_die(map, b[1], b[2]), a[1], a[2])
        /\ AliveOf(tick(OnlyAlive(map))) = next

\* A tick has run before, the loop is about to tick again, and the decision
\* phase marks two adjacent cells, so an in-place update would depend on order.
C2_Witness ==
    /\ pc = "tick" /\ game_state = "Running" /\ Ticked
    /\ LET d == DecidePhase(map, TickOrder(map))
       IN  \E a \in LoopCells(map), b \in LoopCells(map) :
              /\ a # b /\ Abs(a[1] - b[1]) <= 1 /\ Abs(a[2] - b[2]) <= 1
              /\ d.map[a[1]][a[2]].flip /\ d.map[b[1]][b[2]].flip

\* C3: an Escape key event received in an iteration, in any game state, makes
\* the game state Ending (so the loop condition fails at the next loop head).
C3_EscapeEnds ==
    (pc = "tick" /\ event.kind = "Key" /\ event.code = "Escape")
       => game_state = "Ending"

\* C4: the loop starts paused; an Enter key press switches Initializing and
\* Running, no Enter release, other key, mouse event or absent event changes
\* the game state; tick runs in an iteration exactly when the game state
\* after the event handling is Running, and a paused iteration leaves the
\* map as the event handling left it.
C4_PlayPause ==
    /\ game_state = "Initializing"
    /\ [][/\ (pc = "poll" /\ pc' = "tick" /\ event'.code # "Escape") =>
               game_state' = IF event'.kind = "Key" /\ event'.code = "Enter"
                                /\ event'.pressed
                             THEN OtherState(game_state)
                             ELSE game_state
          /\ (pc = "tick" /\ game_state = "Running") => map' = tick(map)
          /\ (pc = "tick" /\ game_state # "Running") => map' = map
          /\ pc = "tick" => game_state' = game_state]_vars

\* The game was resumed and paused again by an Enter press, after a tick
\* ran, in a state where a tick would change the map.
C4_Witness ==
    /\ pc = "tick" /\ game_state = "Initializing" /\ Ticked
    /\ event = Key("Enter", TRUE)
    /\ tick(map) # map

\* C5: a left-button mouse event at screen cell (cx, cy), paused or running,
\* inverts the alive flag of exactly grid cell (cx + o_x, cy + o_y) before
\* the iteration's tick; linger and flip of that cell, all other cells and
\* width, height, o_x, o_y stay; a mouse event without the button changes
\* nothing; toggling the same cell twice restores the map.
C5_MouseToggle ==
    /\ [][(pc = "poll" /\ event'.kind = "Mouse") =>
            LET x == event'.cx + map.o_x
                y == event'.cy + map.o_y
            IN  /\ pc' = "tick"
                /\ map'.width = map.width /\ map'.height = map.height
                /\ map'.o_x = map.o_x /\ map'.o_y = map.o_y
                /\ \A p \in GridCells :
                      /\ map'.map[p[1]][p[2]].linger = map.map[p[1]][p[2]].linger
                      /\ map'.map[p[1]][p[2]].flip = map.map[p[1]][p[2]].flip
                      /\ map'.map[p[1]][p[2]].alive =
                            IF event'.lbutton_pressed /\ p = <<x, y>>
                            THEN ~map.map[p[1]][p[2]].alive
                            ELSE map.map[p[1]][p[2]].alive]_vars
    /\ [](\A c \in ScreenCells :
            mouse_map(mouse_map(map, c[1], c[2], TRUE), c[1], c[2], TRUE) = map)

\* A left-button event was just handled while running, after an earlier
\* tick and before this iteration's tick, and it brought a dead cell to life.
C5_Witness ==
    /\ pc = "tick" /\ game_state = "Running" /\ Ticked
    /\ event.kind = "Mouse" /\ event.lbutton_pressed
    /\ map.map[event.cx + map.o_x][event.cy + map.o_y].alive
    /\ toggles > 0

\* C6: every cell's linger is in 0..9 in every reachable state, so the index
\* display_map uses into color_scale is inside the table.
C6_LingerInRange ==
    /\ \A p \in GridCells : map.map[p[1]][p[2]].linger \in 0..9
    /\ \A c \in ScreenCells :
          map.map[c[1] + map.o_x][c[2] + map.o_y].linger \in 0..(COLOR_SCALE_LEN - 1)

\* A live cell at linger 9 that the coming tick keeps alive, next to a dead
\* cell at linger 0 that it keeps dead: both bounds are about to be hit.
C6_Witness ==
    /\ pc = "tick" /\ game_state = "Running"
    /\ \E p \in LoopCells(map), q \in LoopCells(map) :
          /\ map.map[p[1]][p[2]].linger = 9
          /\ tick(map).map[p[1]][p[2]].alive
          /\ map.map[q[1]][q[2]].linger = 0
          /\ ~tick(map).map[q[1]][q[2]].alive

\* C7: after one tick every cell's linger is min(old + 1, 9) if the cell is
\* alive after the commit and max(old - 1, 0) if it is dead after the commit.
C7_LingerStep ==
    [][(pc = "tick" /\ game_state = "Running") =>
         \A p \in GridCells :
            LET old == map.map[p[1]][p[2]].linger
            IN  map'.map[p[1]][p[2]].linger =
                   IF map'.map[p[1]][p[2]].alive THEN Min(old + 1, 9)
                                                 ELSE Max(old - 1, 0)]_vars

\* After ticks: a dead cell still fading (it was alive for some generations)
\* and a live cell at its first step of brightness.
C7_Witness ==
    /\ pc = "poll" /\ game_state = "Running"
    /\ \E p \in LoopCells(map), q \in LoopCells(map) :
          /\ ~map.map[p[1]][p[2]].alive /\ map.map[p[1]][p[2]].linger \in 2..8
          /\ map.map[q[1]][q[2]].alive /\ map.map[q[1]][q[2]].linger = 1

\* C8: at the start of every loop iteration and of every tick no cell has a
\* pending flip; live_die never clears a flip flag, and every flag the
\* decision phase sets is cleared by flip_all of the same tick.
C8_NoPendingFlip ==
    /\ pc \in {"poll", "tick"} => \A p \in GridCells : ~map.map[p[1]][p[2]].flip
    /\ LET d == DecidePhase(map, TickOrder(map))
       IN  /\ \A p \in GridCells, q \in LoopCells(map) :
                 d.map[p[1]][p[2]].flip => live_die(d, q[1], q[2]).map[p[1]][p[2]].flip
           /\ \A p \in GridCells : ~flip_all(d).map[p[1]][p[2]].flip

\* A later tick is about to run and its decision phase sets a flip flag.
C8_Witness ==
    /\ pc = "tick" /\ game_state = "Running" /\ Ticked /\ toggles > 0
    /\ \E p \in GridCells : DecidePhase(map, TickOrder(map)).map[p[1]][p[2]].flip

\* C9: every cell of the last column and of the last row is dead with linger
\* 0 and flip false in every reachable state.
C9_LastRowColumnDead ==
    \A p \in GridCells :
       (p[1] = MAP_WIDTH - 1 \/ p[2] = MAP_HEIGHT - 1)
          => map.map[p[1]][p[2]] = [alive |-> FALSE, linger |-> 0, flip |-> FALSE]

\* After ticks and toggles, a cell of the last row or column has exactly
\* three live neighbours and is about to be passed over by a tick.
C9_Witness ==
    /\ pc = "tick" /\ game_state = "Running" /\ Ticked /\ toggles > 0
    /\ \E p \in GridCells :
          /\ p[1] = MAP_WIDTH - 1 \/ p[2] = MAP_HEIGHT - 1
          /\ Cardinality({q \in Moore(p[1], p[2]) : map.map[q[1]][q[2]].alive}) = 3

\* C10: width, height, o_x and o_y stay as Map::new set them; the indices
\* display_map and the mouse handler compute for a screen cell are inside the
\* grid; every index live_neighbours reads is inside the grid and its count
\* is between 0 and 8.
C10_InBounds ==
    /\ map.width = MAP_WIDTH /\ map.height = MAP_HEIGHT
    /\ map.o_x = (MAP_WIDTH - SCREEN_WIDTH) \div 2
    /\ map.o_y = (MAP_HEIGHT - SCREEN_HEIGHT) \div 2
    /\ DOMAIN map.map = 0..(MAP_WIDTH - 1)
    /\ \A x \in DOMAIN map.map : DOMAIN map.map[x] = 0..(MAP_HEIGHT - 1)
    /\ \A c \in ScreenCells :
          /\ c[1] + map.o_x \in 0..(MAP_WIDTH - 1)
          /\ c[2] + map.o_y \in 0..(MAP_HEIGHT - 1)
    /\ \A p \in GridCells :
          /\ NeighbourIndices(map, p[1], p[2]) \subseteq GridCells
          /\ live_neighbours(map, p[1], p[2]) \in 0..8

\* The mouse handler just toggled the last screen cell, and a cell of the
\* grid has more than three live neighbours.
C10_Witness ==
    /\ pc = "tick" /\ event.kind = "Mouse" /\ event.lbutton_pressed
    /\ event.cx = SCREEN_WIDTH - 1 /\ event.cy = SCREEN_HEIGHT - 1
    /\ \E p \in GridCells : live_neighbours(map, p[1], p[2]) > 3
====
